---- MODULE Spec2Model ----
(***************************************************************************)
(* stream-literal: html`` builds a TemplateResult, render() turns it into  *)
(* a ReadableStream<string> by driving the async generators renderTemplate *)
(* and renderValue.  The generators are modelled as a stack of frames, the *)
(* stream by its queue and state, text by sequences of one-character       *)
(* strings.                                                                *)
(***************************************************************************)
EXTENDS Integers, Sequences, FiniteSets, TLC

VARIABLES
    root,       \* first argument of render()
    props,      \* second argument of render() (the function takes none)
    stack,      \* suspended/running generator frames, innermost last
    startPc,    \* position of the start(controller) callback
    settled,    \* paths of the promises that have settled
    delivered,  \* the async iterator answered the pending next()
    queue,      \* chunks held by the stream, not yet read
    state,      \* stream state: readable / closed / errored
    closeRequested, \* controller.close() was called
    storedError,    \* the error of an errored stream
    enq,        \* every chunk ever passed to controller.enqueue
    recv,       \* chunks the consumer has read
    consumer,   \* consumeStream: reading / done / rejected
    work,       \* log of the producer's steps: what it did and where
    calls,      \* props of every call made to a component
    site        \* one html`` call site: its invocations and their renders

vars == <<root, props, stack, startPc, settled, delivered, queue, state,
          closeRequested, storedError, enq, recv, consumer, work, calls,
          site>>

----------------------------------------------------------------------------
(* Bounds of the checked inputs *)

MaxItems == 2
MaxDepth == 2

----------------------------------------------------------------------------
(* JavaScript values.  One record shape for all of them:                   *)
(*   k      kind                                                           *)
(*   n      number / bigint value, boolean as 0/1                          *)
(*   s      text of a string, description of a symbol, source of a function*)
(*   strs   strings of a TemplateResult                                    *)
(*   items  values of a TemplateResult, elements of a collection, settled  *)
(*          value of a promise, return value of a function                 *)

Val(k, n, s, strs, items) ==
    [k |-> k, n |-> n, s |-> s, strs |-> strs, items |-> items]

Undefined     == Val("undefined", 0, <<>>, <<>>, <<>>)
Null          == Val("null", 0, <<>>, <<>>, <<>>)
Bool(b)       == Val("boolean", IF b THEN 1 ELSE 0, <<>>, <<>>, <<>>)
Num(n)        == Val("number", n, <<>>, <<>>, <<>>)
BigInt(n)     == Val("bigint", n, <<>>, <<>>, <<>>)
Str(s)        == Val("string", 0, s, <<>>, <<>>)
Sym(desc)     == Val("symbol", 0, desc, <<>>, <<>>)
Obj           == Val("object", 0, <<>>, <<>>, <<>>)
Fn(src, ret)  == Val("function", 0, src, <<>>, <<ret>>)
PromiseOf(v)  == Val("promise", 0, <<>>, <<>>, <<v>>)
Array(items)  == Val("array", 0, <<>>, <<>>, items)
Gen(items)    == Val("generator", 0, <<>>, <<>>, items)
AsyncGen(items) == Val("asyncgenerator", 0, <<>>, <<>>, items)

\* Promise.reject(reason): n = 1 marks the rejection, s is the reason
Rejected(reason) == Val("promise", 1, reason, <<>>, <<>>)

\* { then(resolve) { resolve(v) } }: an object that is no Promise instance
Thenable(v)   == Val("thenable", 0, <<>>, <<>>, <<v>>)

\* html(strings, ...values)
html(strings, values) == Val("template", 0, <<>>, strings, values)

\* typeof value
TypeOf(value) ==
    CASE value.k \in {"undefined", "boolean", "number", "bigint", "string",
                      "symbol", "function"} -> value.k
      [] OTHER -> "object"

isPrimitive(value) ==
    value.k = "null" \/ (TypeOf(value) # "object" /\ TypeOf(value) # "function")

isPromise(value) == value.k = "promise"

\* Array.isArray(value)
isArray(value) == value.k = "array"

isIterable(value) == value.k \in {"array", "generator"}

\* no value passes for an async iterable
isNeverAsyncIterable(value) == FALSE

isAsyncIterable(value) == value.k = "asyncgenerator"

isTemplateResult(value) ==
    TypeOf(value) = "object" /\ value.k # "null" /\ value.k = "template"

----------------------------------------------------------------------------
(* String(value) *)

Digits == <<"0", "1", "2", "3", "4", "5", "6", "7", "8", "9">>

RECURSIVE NatDigits(_)
NatDigits(n) ==
    IF n < 10 THEN <<Digits[n + 1]>>
    ELSE NatDigits(n \div 10) \o <<Digits[(n % 10) + 1]>>

Decimal(n) == IF n < 0 THEN <<"-">> \o NatDigits(-n) ELSE NatDigits(n)

String(value) ==
    CASE value.k = "undefined" -> <<"u","n","d","e","f","i","n","e","d">>
      [] value.k = "null"      -> <<"n","u","l","l">>
      [] value.k = "boolean"   -> IF value.n = 1 THEN <<"t","r","u","e">>
                                  ELSE <<"f","a","l","s","e">>
      [] value.k = "number"    -> Decimal(value.n)
      [] value.k = "bigint"    -> Decimal(value.n)
      [] value.k = "string"    -> value.s
      [] value.k = "symbol"    ->
            <<"S","y","m","b","o","l","(">> \o value.s \o <<")">>
      [] value.k = "function"  -> value.s

----------------------------------------------------------------------------
(* Errors: name and message (the message as the pieces it is built from) *)

NoError == [name |-> "", message |-> <<>>]

\* new Error("Invalid template.")
InvalidTemplateError(value) ==
    [name |-> "Error", message |-> <<"Invalid template.">>]

\* new Error(`Invalid template value: ${value}`)
InvalidValueError(value) ==
    [name |-> "Error",
     message |-> <<"Invalid template value: ">> \o String(value)]

\* strings.length with strings undefined
UndefinedLengthError ==
    [name |-> "TypeError",
     message |-> <<"Cannot read properties of undefined (reading 'length')">>]

\* controller.enqueue / controller.close on a stream that is not readable
InvalidStateError ==
    [name |-> "TypeError",
     message |-> <<"Invalid state: Controller is already closed">>]

\* the value a promise was rejected with
RejectionReason(reason) == [name |-> "Reason", message |-> reason]

----------------------------------------------------------------------------
(* Inputs *)

RECURSIVE SeqsUpTo(_, _)
SeqsUpTo(S, n) ==
    IF n = 0 THEN {<< >>}
    ELSE LET shorter == SeqsUpTo(S, n - 1)
         IN  shorter \cup {Append(q, x) : q \in shorter, x \in S}

Hi == <<"h", "i">>
Li(value) == html(<< <<"<">>, <<">">> >>, <<value>>)
Bare(value) == html(<< <<>>, <<>> >>, <<value>>)

F1 == Fn(<<"f", "1">>, Undefined)
F2 == Fn(<<"f", "2">>, Undefined)

Prims ==
    {Undefined, Null, Bool(TRUE), Bool(FALSE), Num(0), Num(42), Num(-7),
     Str(<<>>), Str(Hi), BigInt(42), Sym(Hi)}

Leaves == Prims \cup {F1, Obj}

\* elements of the collections
Items ==
    {Num(2), Null, Li(Str(<<"x">>)), PromiseOf(Num(2))}

Colls ==
    UNION {{Array(q), Gen(q), AsyncGen(q)} : q \in SeqsUpTo(Items, MaxItems)}

\* one layer around a value
Layer(v) == {PromiseOf(v), Array(<<v>>), AsyncGen(<<v>>), Li(v)}

RECURSIVE Wraps(_, _)
Wraps(S, d) ==
    IF d = 0 THEN S
    ELSE LET inner == Wraps(S, d - 1)
         IN  inner \cup UNION {Layer(v) : v \in inner}

Wrapped == Wraps({Num(42), Null, F2}, MaxDepth)

\* the slot values that get a sibling
Paired ==
    Leaves \cup Wraps({Num(42), Null, F2}, 1)
    \cup {Array(<<Li(Str(<<"x">>)), Null>>),
          Gen(<<Num(2), Li(Str(<<"x">>))>>),
          Gen(<<PromiseOf(Num(2)), Null>>), Gen(<<Num(2), Null>>),
          AsyncGen(<<Num(2), PromiseOf(Num(2))>>),
          AsyncGen(<<Num(2), Num(2)>>)}

\* [1, [[2, 3], 4]]
NestedArray ==
    Array(<<Num(1), Array(<<Array(<<Num(2), Num(3)>>), Num(4)>>)>>)

SlotVals == Leaves \cup Colls \cup Wrapped \cup {NestedArray}

\* the sibling of the slot under study
Siblings == {Num(7), PromiseOf(Num(7)), AsyncGen(<<Num(8)>>)}

A == <<"a">>
B == <<"b">>
C == <<"c">>

Templates ==
    {html(<<Hi>>, <<>>)}
    \cup {Bare(x) : x \in Leaves \cup Wrapped \cup {NestedArray}}
    \cup {html(<<A, B>>, <<x>>) : x \in SlotVals}
    \cup {html(<<A, B, C>>, <<x, y>>) : x \in Paired, y \in Siblings}
    \cup {html(<<A, B, C>>, <<y, x>>) : x \in Paired, y \in Siblings}

\* what the components of the tests return
ValidOutputs ==
    {Null, Undefined, html(<<Hi>>, <<>>), PromiseOf(html(<<Hi>>, <<>>)),
     Gen(<<html(<<A>>, <<>>), html(<<B>>, <<>>)>>),
     AsyncGen(<<html(<<A>>, <<>>), html(<<B>>, <<>>)>>),
     html(<<A, B>>, <<Str(Hi)>>)}

InvalidOutputs ==
    {Bool(TRUE), Num(42), Str(Hi), Array(<<Str(A), Str(B)>>), Sym(Hi), Obj,
     F1, PromiseOf(Str(Hi))}

Components ==
    {Fn(<<"C">>, out) : out \in ValidOutputs \cup InvalidOutputs}

PropsRecord == Obj

Roots == Templates \cup Components

----------------------------------------------------------------------------
(* Generator frames.  fn: the generator function; value: its argument;     *)
(* path: where the argument sits in the tree under the root; i: the loop   *)
(* index (1-based); pc: where the body stands.                             *)

Frame(fn, value, path) ==
    [fn |-> fn, value |-> value, path |-> path, i |-> 1, pc |-> "enter"]

Top == stack[Len(stack)]

Running == startPc = "loop" /\ stack # << >>

InFrame(fn, pc) == Running /\ Top.fn = fn /\ Top.pc = pc

Pop(stk) == SubSeq(stk, 1, Len(stk) - 1)

\* the running frame becomes f
Step(stk, f) == [stk EXCEPT ![Len(stk)] = f]

\* the new generator is started and the caller goes on without draining it
CallDetached(stk, f, fn, value, path) ==
    Pop(stk) \o <<Frame(fn, value, path), f>>

\* yield* g(value): the running frame becomes f and waits for the new one
Call(stk, f, fn, value, path) == Append(Step(stk, f), Frame(fn, value, path))

\* paths of the promises in the tree under v
RECURSIVE PromisePaths(_, _)
PromisePaths(v, path) ==
    (IF isPromise(v) THEN {path} ELSE {})
    \cup UNION {PromisePaths(v.items[j], Append(path, j)) :
                   j \in IF v.k = "function" THEN {} ELSE DOMAIN v.items}

\* What awaiting v gives, and where it sits: a promise resolved with a
\* promise takes that promise's outcome.
RECURSIVE Fulfilment(_)
Fulfilment(v) == IF isPromise(v) THEN Fulfilment(v.items[1]) ELSE v

RECURSIVE FulfilmentPath(_, _)
FulfilmentPath(v, path) ==
    IF isPromise(v) THEN FulfilmentPath(v.items[1], Append(path, 1)) ELSE path

\* awaiting v throws: v was rejected, or resolved with a promise that was
RECURSIVE Rejects(_)
Rejects(v) ==
    IF isPromise(v) THEN (IF v.n = 1 THEN TRUE ELSE Rejects(v.items[1]))
    ELSE FALSE

\* the reason is replaced by an error of the renderer
ReasonWrapped(v) == [name |-> "Error", message |-> <<"Render failed.">>]

\* what awaiting v throws
RECURSIVE Reason(_)
Reason(v) == IF v.n = 1 THEN RejectionReason(v.s) ELSE Reason(v.items[1])

\* the value at a path under v
RECURSIVE ValueAt(_, _)
ValueAt(v, path) ==
    IF path = << >> THEN v ELSE ValueAt(v.items[Head(path)], Tail(path))

Event(op, f) == [op |-> op, fn |-> f.fn, path |-> f.path, i |-> f.i]

----------------------------------------------------------------------------
(* The stream (ReadableStream with the default controller) *)

\* highWaterMark of the default queuing strategy: with this many chunks
\* held, the stream wants no more (desiredSize <= 0)
HighWaterMark == 1

\* the chunk is enqueued only if the stream wants more, else it is dropped
EnqueueIfWanted(chunk) ==
    /\ queue' = IF Len(queue) < HighWaterMark THEN Append(queue, chunk)
                ELSE queue
    /\ enq' = Append(enq, chunk)

\* controller.enqueue(chunk) on a readable stream
Enqueue(chunk) ==
    /\ queue' = Append(queue, chunk)
    /\ enq' = Append(enq, chunk)

NoEnqueue == UNCHANGED <<queue, enq>>

\* start()'s promise rejects with e: the controller errors the stream,
\* which drops the chunks it holds; a stream that is not readable stays
\* as it is
Throw(e) ==
    /\ stack' = << >>
    /\ startPc' = "threw"
    /\ state' = IF state = "readable" THEN "errored" ELSE state
    /\ storedError' = IF state = "readable" THEN e ELSE storedError
    /\ queue' = IF state = "readable" THEN << >> ELSE queue
    /\ UNCHANGED <<enq, closeRequested>>

StreamUnchanged == UNCHANGED <<state, closeRequested, storedError>>

----------------------------------------------------------------------------
(* State after render(root, props) has returned *)

\* no invocation of the call site yet
NoSite == [t |-> << >>, r |-> << >>, cache |-> {}]

Init ==
    /\ root \in Roots
    /\ props = IF root.k = "function" THEN PropsRecord ELSE Undefined
    /\ stack = <<Frame("renderTemplate", root, << >>)>>
    /\ startPc = "loop"
    /\ settled = {}
    /\ delivered = FALSE
    /\ queue = << >>
    /\ state = "readable"
    /\ closeRequested = FALSE
    /\ storedError = NoError
    /\ enq = << >>
    /\ recv = << >>
    /\ consumer = "reading"
    /\ work = << >>
    /\ calls = << >>
    /\ site = NoSite

----------------------------------------------------------------------------
(* renderTemplate(template) *)

\* const { strings, values } = template; strings.length
RenderTemplateThrow ==
    /\ InFrame("renderTemplate", "enter")
    /\ Top.value.k # "template"
    /\ Throw(UndefinedLengthError)
    /\ work' = Append(work, Event("throw", Top))
    /\ UNCHANGED <<root, props, settled, delivered, recv, consumer, calls, site>>

\* yield strings[i], handed by start() to controller.enqueue
RenderTemplateYield ==
    /\ Running
    /\ Top.fn = "renderTemplate"
    /\ Top.pc \in {"enter", "loop"}
    /\ Top.value.k = "template"
    /\ Top.i <= Len(Top.value.strs)
    /\ state = "readable"
    /\ Enqueue(Top.value.strs[Top.i])
    /\ stack' = Step(stack, [Top EXCEPT !.pc = "slot"])
    /\ work' = Append(work, Event("yield", Top))
    /\ StreamUnchanged
    /\ UNCHANGED <<root, props, startPc, settled, delivered, recv, consumer,
                   calls, site>>

\* i < values.length - 1
HasValueButLast(template, i) == i < Len(template.items)

\* i < values.length (i counts from 1 here)
HasValue(template, i) == i <= Len(template.items)

\* if (i < values.length) yield* renderValue(values[i]); then i++
RenderTemplateValue ==
    /\ InFrame("renderTemplate", "slot")
    /\ LET next == [Top EXCEPT !.i = @ + 1, !.pc = "loop"]
       IN  stack' = IF HasValue(Top.value, Top.i)
                    THEN Call(stack, next, "renderValue",
                              Top.value.items[Top.i], Append(Top.path, Top.i))
                    ELSE Step(stack, next)
    /\ StreamUnchanged
    /\ UNCHANGED <<root, props, startPc, settled, delivered, queue, enq, recv,
                   consumer, work, calls, site>>

\* the loop ends: i = strings.length
RenderTemplateReturn ==
    /\ Running
    /\ Top.fn = "renderTemplate"
    /\ Top.pc \in {"enter", "loop"}
    /\ Top.value.k = "template"
    /\ Top.i > Len(Top.value.strs)
    /\ stack' = Pop(stack)
    /\ StreamUnchanged
    /\ UNCHANGED <<root, props, startPc, settled, delivered, queue, enq, recv,
                   consumer, work, calls, site>>

----------------------------------------------------------------------------
(* renderValue(value) *)

\* the if-chain without its first test
BranchNoAbsent(value) ==
    IF isPrimitive(value) THEN "primitive"
    ELSE IF TypeOf(value) = "object" THEN
             IF isPromise(value) THEN "promise"
             ELSE IF isIterable(value) THEN "iterable"
             ELSE IF isAsyncIterable(value) THEN "asyncIterable"
             ELSE IF isTemplateResult(value) THEN "template"
             ELSE "none"
    ELSE "throw"

\* the branch of the if-chain that value takes
Branch(value) ==
    IF value.k = "undefined" \/ value.k = "null" THEN "absent"
    ELSE IF isPrimitive(value) THEN "primitive"
    ELSE IF TypeOf(value) = "object" THEN
             IF isPromise(value) THEN "promise"
             ELSE IF isIterable(value) THEN "iterable"
             ELSE IF isAsyncIterable(value) THEN "asyncIterable"
             ELSE IF isTemplateResult(value) THEN "template"
             ELSE "none"
    ELSE "throw"

Enters(branch) == InFrame("renderValue", "enter") /\ Branch(Top.value) = branch

\* return, also by falling out of the if-chain
RenderValueReturn ==
    /\ \/ Enters("absent")
       \/ Enters("none")
       \/ InFrame("renderValue", "ret")
    /\ stack' = Pop(stack)
    /\ StreamUnchanged
    /\ UNCHANGED <<root, props, startPc, settled, delivered, queue, enq, recv,
                   consumer, work, calls, site>>

\* every string is emitted
AnyString(str) == TRUE

\* str !== ""
NotEmpty(str) == str # << >>

\* const str = String(value); if (str !== "") yield str
RenderValuePrimitive ==
    /\ Enters("primitive")
    /\ NotEmpty(String(Top.value)) => state = "readable"
    /\ LET str == String(Top.value)
       IN  IF NotEmpty(str) THEN Enqueue(str) ELSE NoEnqueue
    /\ stack' = Pop(stack)
    /\ work' = Append(work, Event("yield", Top))
    /\ StreamUnchanged
    /\ UNCHANGED <<root, props, startPc, settled, delivered, recv, consumer,
                   calls, site>>

\* await value
RenderValueAwait ==
    /\ Enters("promise")
    /\ stack' = Step(stack, [Top EXCEPT !.pc = "await"])
    /\ work' = Append(work, Event("await", Top))
    /\ StreamUnchanged
    /\ UNCHANGED <<root, props, startPc, settled, delivered, queue, enq, recv,
                   consumer, calls, site>>

\* the body goes on at once
NotAwaited(f) == TRUE

\* the body may go on once the awaited promise has settled
Awaited(f) == f.path \in settled

\* yield* renderValue(<the settled value>)
RenderValueAwaited ==
    /\ InFrame("renderValue", "await")
    /\ Awaited(Top)
    /\ ~Rejects(Top.value)
    /\ stack' = Call(stack, [Top EXCEPT !.pc = "ret"], "renderValue",
                     Fulfilment(Top.value), FulfilmentPath(Top.value, Top.path))
    /\ work' = Append(work, Event("resume", Top))
    /\ StreamUnchanged
    /\ UNCHANGED <<root, props, startPc, settled, delivered, queue, enq, recv,
                   consumer, calls, site>>

\* for (const item of value) yield* renderValue(item)
RenderValueForOf ==
    /\ Enters("iterable") \/ InFrame("renderValue", "for")
    /\ stack' = IF Top.i <= Len(Top.value.items)
                THEN Call(stack, [Top EXCEPT !.i = @ + 1, !.pc = "for"],
                          "renderValue", Top.value.items[Top.i],
                          Append(Top.path, Top.i))
                ELSE Pop(stack)
    /\ work' = Append(work, Event("iterate", Top))
    /\ StreamUnchanged
    /\ UNCHANGED <<root, props, startPc, settled, delivered, queue, enq, recv,
                   consumer, calls, site>>

\* for await (const item of value): ask for the next element and wait
RenderValueForAwait ==
    /\ Enters("asyncIterable") \/ InFrame("renderValue", "forAwait")
    /\ stack' = Step(stack, [Top EXCEPT !.pc = "next"])
    /\ delivered' = FALSE
    /\ work' = Append(work, Event("next", Top))
    /\ StreamUnchanged
    /\ UNCHANGED <<root, props, startPc, settled, queue, enq, recv, consumer,
                   calls, site>>

\* the body may go on once the iterator has answered
Answered(f) == delivered

\* an async generator awaits what it yields: the loop gets the fulfilment
NextItem(f) == Fulfilment(f.value.items[f.i])
NextPath(f) == FulfilmentPath(f.value.items[f.i], Append(f.path, f.i))

\* ... yield* renderValue(item), or the end of the loop
RenderValueForAwaitItem ==
    /\ InFrame("renderValue", "next")
    /\ Answered(Top)
    /\ Top.i <= Len(Top.value.items) => ~Rejects(Top.value.items[Top.i])
    /\ stack' = IF Top.i <= Len(Top.value.items)
                THEN Call(stack, [Top EXCEPT !.i = @ + 1, !.pc = "forAwait"],
                          "renderValue", NextItem(Top), NextPath(Top))
                ELSE Pop(stack)
    /\ delivered' = FALSE
    /\ work' = Append(work, Event("resume", Top))
    /\ StreamUnchanged
    /\ UNCHANGED <<root, props, startPc, settled, queue, enq, recv, consumer,
                   calls, site>>

\* yield* renderTemplate(value)
RenderValueTemplate ==
    /\ Enters("template")
    /\ stack' = Call(stack, [Top EXCEPT !.pc = "ret"], "renderTemplate",
                     Top.value, Top.path)
    /\ StreamUnchanged
    /\ UNCHANGED <<root, props, startPc, settled, delivered, queue, enq, recv,
                   consumer, work, calls, site>>

\* throw new Error(`Invalid template value: ${value}`)
RenderValueThrow ==
    /\ Enters("throw")
    /\ Throw(InvalidValueError(Top.value))
    /\ work' = Append(work, Event("throw", Top))
    /\ UNCHANGED <<root, props, settled, delivered, recv, consumer, calls, site>>

----------------------------------------------------------------------------
(* render(): the end of start(controller) *)

\* close() is never reached
LoopNeverDone == FALSE

\* close() is called while the generator is still running
LoopDoneEarly == TRUE

\* the for await loop has drained the generator
LoopDone == stack = << >>

\* the stream closes at once and the chunks it holds are never read
ClosedAbruptly(q) == "closed"

\* the state of a readable stream after close(): closed once the queue is
\* empty
ClosedWhenDrained(q) == IF q = << >> THEN "closed" ELSE "readable"

\* controller.close() after the for await loop
StartClose ==
    /\ startPc = "loop"
    /\ LoopDone
    /\ state = "readable"
    /\ startPc' = "done"
    /\ closeRequested' = TRUE
    /\ state' = ClosedWhenDrained(queue)
    /\ UNCHANGED <<root, props, stack, settled, delivered, queue, storedError,
                   enq, recv, consumer, work, calls, site>>

----------------------------------------------------------------------------
(* The environment: promises settle, async iterators answer *)

Settle ==
    /\ \E p \in PromisePaths(root, << >>) \ settled :
          /\ (ValueAt(root, p).n = 0 /\ isPromise(ValueAt(root, Append(p, 1))))
                => Append(p, 1) \in settled
          /\ settled' = settled \cup {p}
    /\ UNCHANGED <<root, props, stack, startPc, delivered, queue, state,
                   closeRequested, storedError, enq, recv, consumer, work,
                   calls, site>>

Deliver ==
    /\ InFrame("renderValue", "next")
    /\ ~delivered
    /\ (Top.i <= Len(Top.value.items) /\ isPromise(Top.value.items[Top.i]))
          => Append(Top.path, Top.i) \in settled
    /\ delivered' = TRUE
    /\ UNCHANGED <<root, props, stack, startPc, settled, queue, state,
                   closeRequested, storedError, enq, recv, consumer, work,
                   calls, site>>

----------------------------------------------------------------------------
(* The consumer: for await (const chunk of stream) *)

ReadChunk ==
    /\ consumer = "reading"
    /\ state # "errored"
    /\ queue # << >>
    /\ recv' = Append(recv, Head(queue))
    /\ queue' = Tail(queue)
    /\ state' = IF closeRequested THEN ClosedWhenDrained(Tail(queue))
                ELSE state
    /\ UNCHANGED <<root, props, stack, startPc, settled, delivered,
                   closeRequested, storedError, enq, consumer, work, calls, site>>

ReadDone ==
    /\ consumer = "reading"
    /\ state = "closed"
    /\ consumer' = "done"
    /\ UNCHANGED <<root, props, stack, startPc, settled, delivered, queue,
                   state, closeRequested, storedError, enq, recv, work, calls, site>>

ReadError ==
    /\ consumer = "reading"
    /\ state = "errored"
    /\ consumer' = "rejected"
    /\ UNCHANGED <<root, props, stack, startPc, settled, delivered, queue,
                   state, closeRequested, storedError, enq, recv, work, calls, site>>

----------------------------------------------------------------------------

Next ==
    \/ RenderTemplateThrow
    \/ RenderTemplateYield
    \/ RenderTemplateValue
    \/ RenderTemplateReturn
    \/ RenderValueReturn
    \/ RenderValuePrimitive
    \/ RenderValueAwait
    \/ RenderValueAwaited
    \/ RenderValueForOf
    \/ RenderValueForAwait
    \/ RenderValueForAwaitItem
    \/ RenderValueTemplate
    \/ RenderValueThrow
    \/ StartClose
    \/ Settle
    \/ Deliver
    \/ ReadChunk
    \/ ReadDone
    \/ ReadError

Spec == Init /\ [][Next]_vars

\* the steps of the program: the generators, start() and the consumer
Program ==
    \/ RenderTemplateThrow
    \/ RenderTemplateYield
    \/ RenderTemplateValue
    \/ RenderTemplateReturn
    \/ RenderValueReturn
    \/ RenderValuePrimitive
    \/ RenderValueAwait
    \/ RenderValueAwaited
    \/ RenderValueForOf
    \/ RenderValueForAwait
    \/ RenderValueForAwaitItem
    \/ RenderValueTemplate
    \/ RenderValueThrow
    \/ StartClose
    \/ ReadChunk
    \/ ReadDone
    \/ ReadError

\* The event loop runs a job of the program whenever one is ready.  Nothing
\* makes a promise settle or an async iterator answer.
FairSpec == Spec /\ WF_vars(Program)

----------------------------------------------------------------------------
(* Rejected promises, objects with a then method, and a consumer that     *)
(* cancels                                                                 *)

Boom == <<"b", "o", "o", "m">>

FaultVals ==
    {Rejected(Boom), PromiseOf(Rejected(Boom)), Li(Rejected(Boom)),
     Array(<<Num(2), Rejected(Boom)>>), AsyncGen(<<Num(2), Rejected(Boom)>>),
     Thenable(Num(42)), Obj, F1,
     Null, Num(42), Str(<<>>), PromiseOf(Num(42)), PromiseOf(Null),
     Gen(<<Num(2), Null>>), AsyncGen(<<Null, Num(2)>>), Li(Str(<<"x">>))}

RootsAll ==
    {html(<<A, B>>, <<x>>) : x \in FaultVals}
    \cup {html(<<A, B, C>>, <<x, y>>) : x \in FaultVals, y \in Siblings}
    \cup {html(<<A, B, C>>, <<y, x>>) : x \in FaultVals, y \in Siblings}
    \cup {F1}

\* render(root) has returned
Fresh ==
    /\ props = Undefined
    /\ stack = <<Frame("renderTemplate", root, << >>)>>
    /\ startPc = "loop"
    /\ settled = {}
    /\ delivered = FALSE
    /\ queue = << >>
    /\ state = "readable"
    /\ closeRequested = FALSE
    /\ storedError = NoError
    /\ enq = << >>
    /\ recv = << >>
    /\ consumer = "reading"
    /\ work = << >>
    /\ calls = << >>

InitAll ==
    /\ root \in RootsAll
    /\ Fresh
    /\ site = NoSite

\* await value, value rejected: the reason is thrown in the generator
RenderValueAwaitRejected ==
    /\ InFrame("renderValue", "await")
    /\ Awaited(Top)
    /\ Rejects(Top.value)
    /\ Throw(Reason(Top.value))
    /\ work' = Append(work, Event("throw", Top))
    /\ UNCHANGED <<root, props, settled, delivered, recv, consumer, calls,
                   site>>

\* for await: the async generator yielded a rejected promise, next() rejects
RenderValueForAwaitRejected ==
    /\ InFrame("renderValue", "next")
    /\ Answered(Top)
    /\ Top.i <= Len(Top.value.items)
    /\ Rejects(Top.value.items[Top.i])
    /\ Throw(Reason(Top.value.items[Top.i]))
    /\ work' = Append(work, Event("throw", Top))
    /\ UNCHANGED <<root, props, settled, delivered, recv, consumer, calls,
                   site>>

\* the generator yields a chunk and controller.enqueue(chunk) throws: the
\* stream is not readable any more
EnqueueThrow ==
    /\ Running
    /\ state # "readable"
    /\ \/ /\ Top.fn = "renderTemplate"
          /\ Top.pc \in {"enter", "loop"}
          /\ Top.value.k = "template"
          /\ Top.i <= Len(Top.value.strs)
       \/ /\ Enters("primitive")
          /\ NotEmpty(String(Top.value))
    /\ Throw(InvalidStateError)
    /\ work' = Append(work, Event("yield", Top))
    /\ UNCHANGED <<root, props, settled, delivered, recv, consumer, calls,
                   site>>

\* controller.close() throws: the stream is not readable any more
StartCloseThrow ==
    /\ startPc = "loop"
    /\ LoopDone
    /\ state # "readable"
    /\ Throw(InvalidStateError)
    /\ UNCHANGED <<root, props, settled, delivered, recv, consumer, work,
                   calls, site>>

\* the consumer leaves its loop early: reader.cancel() closes the stream
\* and drops the chunks it holds; the underlying source has no cancel()
Cancel ==
    /\ consumer = "reading"
    /\ state = "readable"
    /\ consumer' = "cancelled"
    /\ state' = "closed"
    /\ queue' = << >>
    /\ UNCHANGED <<root, props, stack, startPc, settled, delivered,
                   closeRequested, storedError, enq, recv, work, calls, site>>

NextAll ==
    \/ RenderTemplateThrow
    \/ RenderTemplateYield
    \/ RenderTemplateValue
    \/ RenderTemplateReturn
    \/ RenderValueReturn
    \/ RenderValuePrimitive
    \/ RenderValueAwait
    \/ RenderValueAwaited
    \/ RenderValueAwaitRejected
    \/ RenderValueForOf
    \/ RenderValueForAwait
    \/ RenderValueForAwaitItem
    \/ RenderValueForAwaitRejected
    \/ RenderValueTemplate
    \/ RenderValueThrow
    \/ EnqueueThrow
    \/ StartClose
    \/ StartCloseThrow
    \/ Settle
    \/ Deliver
    \/ ReadChunk
    \/ ReadDone
    \/ ReadError
    \/ Cancel

SpecAll == InitAll /\ [][NextAll]_vars

----------------------------------------------------------------------------
(* One call site, html`a${x}b${y}c`, evaluated twice; the two descriptors *)
(* are rendered side by side.  Each render is its generator (a stack of   *)
(* frames), the chunks it has handed to its stream, and whether its       *)
(* stream was closed.                                                      *)

\* the strings array of the call site: the same object at every evaluation
SiteStrings == <<A, B, C>>

\* the values of one evaluation
SiteValues ==
    {<<x, y>> : x \in {Num(1), Num(2), Null}, y \in {Str(Hi), Li(Num(1))}}

renderVars ==
    <<root, props, stack, startPc, settled, delivered, queue, state,
      closeRequested, storedError, enq, recv, consumer, work, calls>>

\* the descriptor of the first evaluation is kept and returned again
InvokeCached(strings, values) ==
    IF site.t = << >> THEN html(strings, values) ELSE site.t[1].result

\* html(strings, ...values) at the call site
Invoke(strings, values) == html(strings, values)

\* The generator runs from where it stands to its next yield or to its
\* end: [stack, chunk, yielded].  The values of the call site are
\* primitives and templates.
RECURSIVE Resume(_)
Resume(stk) ==
    IF stk = << >> THEN [stack |-> << >>, chunk |-> << >>, yielded |-> FALSE]
    ELSE LET f == stk[Len(stk)]
             next == [f EXCEPT !.i = @ + 1, !.pc = "loop"]
         IN  IF f.fn = "renderTemplate"
             THEN IF f.pc = "slot"
                  THEN Resume(IF HasValue(f.value, f.i)
                              THEN Call(stk, next, "renderValue",
                                        f.value.items[f.i], Append(f.path, f.i))
                              ELSE Step(stk, next))
                  ELSE IF f.i <= Len(f.value.strs)
                  THEN [stack |-> Step(stk, [f EXCEPT !.pc = "slot"]),
                        chunk |-> f.value.strs[f.i], yielded |-> TRUE]
                  ELSE Resume(Pop(stk))
             ELSE IF f.pc = "ret" \/ Branch(f.value) \in {"absent", "none"}
                  THEN Resume(Pop(stk))
                  ELSE IF Branch(f.value) = "primitive"
                  THEN IF NotEmpty(String(f.value))
                       THEN [stack |-> Pop(stk), chunk |-> String(f.value),
                             yielded |-> TRUE]
                       ELSE Resume(Pop(stk))
                  ELSE Resume(Call(stk, [f EXCEPT !.pc = "ret"],
                                   "renderTemplate", f.value, f.path))

InitSite ==
    /\ root = html(<<Hi>>, << >>)
    /\ Fresh
    /\ site = NoSite

\* the call site is evaluated: html neither reads nor writes a cache
HtmlCall ==
    /\ Len(site.t) < 2
    /\ \E values \in SiteValues :
          site' = [site EXCEPT !.t =
                      Append(@, [values |-> values,
                                 result |-> Invoke(SiteStrings, values)])]
    /\ UNCHANGED renderVars

\* render(descriptor) for the next descriptor not rendered yet
RenderCall ==
    /\ Len(site.r) < Len(site.t)
    /\ site' = [site EXCEPT !.r =
                   Append(@, [stack |-> <<Frame("renderTemplate",
                                                site.t[Len(site.r) + 1].result,
                                                << >>)>>,
                              out |-> << >>,
                              closed |-> FALSE])]
    /\ UNCHANGED renderVars

\* start() of one of the renders takes the next chunk of its generator and
\* enqueues it, or finds the generator done and closes its stream
Produce ==
    /\ \E j \in DOMAIN site.r :
          /\ ~site.r[j].closed
          /\ LET res == Resume(site.r[j].stack)
             IN  site' = [site EXCEPT !.r[j] =
                             [stack |-> res.stack,
                              out |-> IF res.yielded
                                      THEN Append(site.r[j].out, res.chunk)
                                      ELSE site.r[j].out,
                              closed |-> ~res.yielded]]
    /\ UNCHANGED renderVars

NextSite ==
    \/ HtmlCall
    \/ RenderCall
    \/ Produce

SpecSite == InitSite /\ [][NextSite]_vars

----------------------------------------------------------------------------
(* One descriptor handed to render() twice.  The two renders hold the same *)
(* values: a generator or async generator in a slot is one object, and how *)
(* far it has been advanced is shared by whoever iterates it.  site is     *)
(*   d      the descriptor                                                 *)
(*   r      the renders: generator stack, chunks enqueued, stream closed   *)
(*   taken  for every generator of d, by path, how many elements it gave   *)

\* every value iterates like an array: each loop starts from the first
\* element
NeverOneShot(value) == FALSE

\* value[Symbol.iterator]() / value[Symbol.asyncIterator]() returns value
\* itself: the loop advances the object it was given
OneShot(value) == value.k \in {"generator", "asyncgenerator"}

\* paths of the generators in the tree under v
RECURSIVE OneShotPaths(_, _)
OneShotPaths(v, path) ==
    (IF v.k \in {"generator", "asyncgenerator"} THEN {path} ELSE {})
    \cup UNION {OneShotPaths(v.items[j], Append(path, j)) :
                   j \in IF v.k = "function" THEN {} ELSE DOMAIN v.items}

\* the descriptors rendered twice
Descriptors ==
    {html(<<A, B>>, <<x>>) :
        x \in {Num(42), Null, PromiseOf(Num(42)), Li(Str(Hi)),
               Array(<<Num(1), Num(2)>>), Array(<<Li(Num(1)), Num(2)>>),
               Gen(<<Num(1), Num(2)>>), AsyncGen(<<Num(1), Num(2)>>),
               Gen(<<Li(Num(1)), Num(2)>>), Li(Gen(<<Num(1), Num(2)>>)),
               Array(<<Gen(<<Num(1)>>), AsyncGen(<<Num(2)>>)>>)}}

Quiet(stk, taken) ==
    [stack |-> stk, taken |-> taken, chunk |-> << >>, yielded |-> FALSE]

Yield(stk, taken, chunk) ==
    [stack |-> stk, taken |-> taken, chunk |-> chunk, yielded |-> TRUE]

\* One step of the generator on top of stk: [stack, taken, chunk, yielded].
\* Promises are settled, async generators answer at once.
Advance(stk, taken) ==
    LET f == stk[Len(stk)]
        next == [f EXCEPT !.i = @ + 1, !.pc = "loop"]
        branch == IF f.pc = "enter" THEN Branch(f.value)
                  ELSE IF f.pc = "for" THEN "iterable"
                  ELSE "asyncIterable"
        pos == IF OneShot(f.value) THEN taken[f.path] + 1 ELSE f.i
    IN  IF f.fn = "renderTemplate"
        THEN IF f.pc = "slot"
             THEN Quiet(IF HasValue(f.value, f.i)
                        THEN Call(stk, next, "renderValue",
                                  f.value.items[f.i], Append(f.path, f.i))
                        ELSE Step(stk, next), taken)
             ELSE IF f.i <= Len(f.value.strs)
             THEN Yield(Step(stk, [f EXCEPT !.pc = "slot"]), taken,
                        f.value.strs[f.i])
             ELSE Quiet(Pop(stk), taken)
        ELSE IF f.pc = "ret" \/ branch \in {"absent", "none"}
             THEN Quiet(Pop(stk), taken)
        ELSE IF branch = "primitive"
             THEN IF NotEmpty(String(f.value))
                  THEN Yield(Pop(stk), taken, String(f.value))
                  ELSE Quiet(Pop(stk), taken)
        ELSE IF branch = "promise"
             THEN Quiet(Call(stk, [f EXCEPT !.pc = "ret"], "renderValue",
                             Fulfilment(f.value),
                             FulfilmentPath(f.value, f.path)), taken)
        ELSE IF branch = "template"
             THEN Quiet(Call(stk, [f EXCEPT !.pc = "ret"], "renderTemplate",
                             f.value, f.path), taken)
        ELSE IF pos <= Len(f.value.items)
             THEN Quiet(Call(stk,
                             [f EXCEPT !.i = pos + 1,
                                       !.pc = IF branch = "iterable"
                                              THEN "for" ELSE "forAwait"],
                             "renderValue", f.value.items[pos],
                             Append(f.path, pos)),
                        IF OneShot(f.value)
                        THEN [taken EXCEPT ![f.path] = pos] ELSE taken)
             ELSE Quiet(Pop(stk), taken)

InitTwice ==
    /\ root = html(<<Hi>>, << >>)
    /\ Fresh
    /\ \E d \in Descriptors :
          site = [d |-> d, r |-> << >>,
                  taken |-> [p \in OneShotPaths(d, << >>) |-> 0]]

\* render(d), for the first or the second time
RenderSame ==
    /\ Len(site.r) < 2
    /\ site' = [site EXCEPT !.r =
                   Append(@, [stack |-> <<Frame("renderTemplate", site.d,
                                                << >>)>>,
                              out |-> << >>,
                              closed |-> FALSE])]
    /\ UNCHANGED renderVars

\* one of the renders goes on by a step of its generator; start() enqueues
\* the chunk if the step yields one
Run ==
    /\ \E j \in DOMAIN site.r :
          /\ site.r[j].stack # << >>
          /\ LET res == Advance(site.r[j].stack, site.taken)
             IN  site' = [site EXCEPT
                            !.taken = res.taken,
                            !.r[j] = [stack |-> res.stack,
                                      out |-> IF res.yielded
                                              THEN Append(site.r[j].out,
                                                          res.chunk)
                                              ELSE site.r[j].out,
                                      closed |-> FALSE]]
    /\ UNCHANGED renderVars

\* the generator of one of the renders is done: controller.close()
CloseRun ==
    /\ \E j \in DOMAIN site.r :
          /\ site.r[j].stack = << >>
          /\ ~site.r[j].closed
          /\ site' = [site EXCEPT !.r[j].closed = TRUE]
    /\ UNCHANGED renderVars

NextTwice ==
    \/ RenderSame
    \/ Run
    \/ CloseRun

SpecTwice == InitTwice /\ [][NextTwice]_vars

----------------------------------------------------------------------------
(* resolve(value) of the specification: the text a value stands for *)

RECURSIVE Flat(_)
Flat(chunks) ==
    IF chunks = << >> THEN << >> ELSE Head(chunks) \o Flat(Tail(chunks))

\* no invalid value (callable, plain record) anywhere in the tree
RECURSIVE Resolvable(_)
Resolvable(v) ==
    /\ v.k \notin {"function", "object"}
    /\ \A j \in DOMAIN v.items : Resolvable(v.items[j])

RECURSIVE Resolve(_)
RECURSIVE ResolveAll(_)
RECURSIVE Interleave(_, _)

\* f[0] + resolve(s[0]) + f[1] + ... + f[N]
Interleave(f, s) ==
    IF s = << >> THEN Flat(f)
    ELSE Head(f) \o Resolve(Head(s)) \o Interleave(Tail(f), Tail(s))

ResolveAll(s) ==
    IF s = << >> THEN << >> ELSE Resolve(Head(s)) \o ResolveAll(Tail(s))

Resolve(v) ==
    CASE v.k \in {"undefined", "null"} -> << >>
      [] v.k \in {"boolean", "number", "bigint", "string", "symbol"} -> String(v)
      [] v.k = "promise" -> Resolve(v.items[1])
      [] v.k = "template" -> Interleave(v.strs, v.items)
      [] v.k \in {"array", "generator", "asyncgenerator"} -> ResolveAll(v.items)

----------------------------------------------------------------------------
(* C1 *)

\* C1: a template whose slots are all resolvable never fails, and the
\* chunks of a drained render concatenate to
\* f[0] + resolve(s[0]) + f[1] + ... + resolve(s[N-1]) + f[N].
C1_Ordering ==
    (root.k = "template" /\ Resolvable(root)) =>
        /\ state # "errored"
        /\ consumer = "done" => Flat(recv) = Interleave(root.strs, root.items)

\* a drained render of a template with two slots, the first one a nested
\* template
C1_Witness ==
    /\ consumer = "done"
    /\ root.k = "template"
    /\ Resolvable(root)
    /\ Len(root.items) = 2
    /\ root.items[1].k = "template"
    /\ root.items[2].k = "promise"
    /\ Len(recv) > 3

----------------------------------------------------------------------------
(* C2 *)

\* Places in depth-first order.  A path component c (slot c, element c)
\* becomes 2c; what precedes child c in its parent (fragment c, the request
\* for element c) becomes 2c - 1.
Double(path) == [j \in DOMAIN path |-> 2 * path[j]]

Place(e) ==
    IF \/ e.fn = "renderTemplate" /\ e.op = "yield"
       \/ e.op \in {"iterate", "next", "resume"}
    THEN Append(Double(e.path), 2 * e.i - 1)
    ELSE Double(e.path)

\* p is not after q in depth-first order
NotAfter(p, q) ==
    \/ \E m \in DOMAIN p \cap DOMAIN q :
          p[m] < q[m] /\ \A j \in 1..(m - 1) : p[j] = q[j]
    \/ Len(p) <= Len(q) /\ \A j \in DOMAIN p : p[j] = q[j]

\* p lies in a later sibling of the subtree at q (or of one of its ancestors)
Beyond(p, q) ==
    \E m \in DOMAIN p \cap DOMAIN q :
        p[m] > q[m] /\ \A j \in 1..(m - 1) : p[j] = q[j]

Suspended ==
    \/ InFrame("renderValue", "await") /\ Top.path \notin settled
    \/ InFrame("renderValue", "next") /\ ~delivered

\* C2: the producer's steps (fragments yielded, promises awaited, iterators
\* advanced) happen in depth-first, left-to-right order; while a slot or
\* element is being resolved (its generator is on the stack, suspended or
\* not) no step of a later sibling and no later fragment has happened; and
\* nothing follows the await of a promise that has not settled.
C2_Sequential ==
    /\ \A k \in 1..(Len(work) - 1) : NotAfter(Place(work[k]), Place(work[k + 1]))
    /\ \A d \in DOMAIN stack : \A k \in DOMAIN work :
          ~Beyond(Place(work[k]), Double(stack[d].path))
    /\ \A k \in 1..(Len(work) - 1) :
          work[k].op = "await" => work[k].path \in settled

\* the first slot is suspended inside a nested value while the promise in
\* the second slot has already settled, and fragment 1 is all that was
\* emitted
C2_Witness ==
    /\ Suspended
    /\ Len(stack) >= 3
    /\ Len(root.items) = 2
    /\ stack[2].path = <<1>>
    /\ root.items[2].k = "promise"
    /\ <<2>> \in settled
    /\ enq = <<root.strs[1]>>

----------------------------------------------------------------------------
(* C3, C4: render(component, props) *)

\* C3: for a component that returns absent, a template, a deferred
\* template or a sequence of templates, the component is called once with
\* props, the stream does not fail, and a drained stream gives the
\* templates' output in yield order.
C3_ComponentRenders ==
    (root.k = "function" /\ root.items[1] \in ValidOutputs) =>
        /\ state # "errored"
        /\ startPc = "done" => calls = <<props>>
        /\ consumer = "done" => Flat(recv) = Resolve(root.items[1])

\* C4: for a component that returns anything else, the stream of a
\* returned render fails with the message "Invalid template.".
C4_InvalidComponentOutput ==
    (root.k = "function" /\ root.items[1] \in InvalidOutputs) =>
        /\ work = << >> => state = "readable"
        /\ state = "errored" => storedError.message = <<"Invalid template.">>

----------------------------------------------------------------------------
(* The chunk sequence of a value by the specification's classification: *)
(* an absent value none, a primitive one unless its text is empty, a     *)
(* template its fragments around its slots, a collection its elements'.  *)

RECURSIVE Chunks(_)
RECURSIVE ChunksAll(_)
RECURSIVE ChunksAround(_, _)

ChunksAround(f, s) ==
    IF s = << >> THEN f
    ELSE <<Head(f)>> \o Chunks(Head(s)) \o ChunksAround(Tail(f), Tail(s))

ChunksAll(s) ==
    IF s = << >> THEN << >> ELSE Chunks(Head(s)) \o ChunksAll(Tail(s))

Chunks(v) ==
    CASE v.k \in {"undefined", "null"} -> << >>
      [] v.k \in {"boolean", "number", "bigint", "string", "symbol"} ->
            IF String(v) = << >> THEN << >> ELSE <<String(v)>>
      [] v.k = "template" -> ChunksAround(v.strs, v.items)
      [] v.k \in {"array", "generator", "asyncgenerator"} -> ChunksAll(v.items)

\* the first slot of the root is the value under study
FirstSlot == root.items[1]

UnderStudy(kinds) ==
    /\ root.k = "template"
    /\ Len(root.items) >= 1
    /\ FirstSlot.k \in kinds
    /\ Resolvable(root)

----------------------------------------------------------------------------
(* C5 *)

\* C5: an array or generator in a slot is iterated in order: whenever its
\* loop is about to take element i, the text emitted so far is the fragment
\* before the slot followed by the full text of elements 1..i-1, nested
\* collections and templates included; [1,[[2,3],4]] renders "1234".
C5_Flatten ==
    /\ UnderStudy({"array", "generator"}) =>
          /\ (InFrame("renderValue", "for") /\ Top.path = <<1>>) =>
                Flat(enq) = root.strs[1]
                            \o ResolveAll(SubSeq(FirstSlot.items, 1, Top.i - 1))
          /\ consumer = "done" =>
                Flat(recv) = Interleave(root.strs, root.items)
    /\ (root = Bare(NestedArray) /\ consumer = "done") =>
          recv = << <<>>, <<"1">>, <<"2">>, <<"3">>, <<"4">>, <<>> >>

\* the loop of a generator has drained a template element and a second
\* element is left
C5_Witness ==
    /\ UnderStudy({"generator"})
    /\ InFrame("renderValue", "for")
    /\ Top.path = <<1>>
    /\ Top.i = 2
    /\ Len(FirstSlot.items) = 2
    /\ FirstSlot.items[1].k = "template"
    /\ Len(enq) = 4

----------------------------------------------------------------------------
(* C6 *)

\* the tree with every promise replaced by what it settles to
RECURSIVE Strip(_)
Strip(v) ==
    IF v.k = "promise" THEN Strip(v.items[1])
    ELSE [v EXCEPT !.items = [j \in DOMAIN v.items |-> Strip(v.items[j])]]

RECURSIVE HasKind(_, _)
HasKind(v, kind) ==
    v.k = kind \/ \E j \in DOMAIN v.items : HasKind(v.items[j], kind)

\* C6: a drained render delivers the chunk sequence of the same tree with
\* every deferred value replaced by the value it settles to (a tree that is
\* itself among the inputs), and while the promise in a slot has not
\* settled nothing beyond the fragment before it is emitted.
C6_DeferredTransparent ==
    (root.k = "template" /\ Resolvable(root)) =>
        /\ Strip(root) \in Roots
        /\ consumer = "done" => recv = Chunks(Strip(root))
        /\ (Len(root.items) >= 1 /\ FirstSlot.k = "promise"
              /\ <<1>> \notin settled) =>
                \/ enq = << >>
                \/ enq = <<root.strs[1]>>

\* a drained render whose slot held a promise of a promise (of a template
\* or of a primitive)
C6_Witness ==
    /\ consumer = "done"
    /\ UnderStudy({"promise"})
    /\ FirstSlot.items[1].k \in {"promise", "template"}
    /\ Len(recv) >= 3

----------------------------------------------------------------------------
(* C7 *)

\* C7: an async sequence in a slot is consumed in order: whenever the loop
\* asks for element i, the text emitted so far is the fragment before the
\* slot followed by the full text of elements 1..i-1, whatever the pace of
\* the sequence; a drained render has the elements' text in yield order.
C7_AsyncSequence ==
    UnderStudy({"asyncgenerator"}) =>
        /\ (InFrame("renderValue", "next") /\ Top.path = <<1>>) =>
              Flat(enq) = root.strs[1]
                          \o ResolveAll(SubSeq(FirstSlot.items, 1, Top.i - 1))
        /\ consumer = "done" =>
              recv = <<root.strs[1]>> \o ChunksAll(Strip(FirstSlot).items)
                     \o ChunksAround(Tail(root.strs), Tail(Strip(root).items))

\* the loop waits for the second element after draining the first, while
\* the consumer has already read what was emitted
C7_Witness ==
    /\ UnderStudy({"asyncgenerator"})
    /\ InFrame("renderValue", "next")
    /\ ~delivered
    /\ Top.path = <<1>>
    /\ Top.i = 2
    /\ Len(FirstSlot.items) = 2
    /\ Len(enq) >= 2
    /\ queue = << >>

----------------------------------------------------------------------------
(* C8 *)

\* the canonical text of the primitives among the inputs
Canonical(v) ==
    CASE v = Bool(TRUE)  -> <<"t", "r", "u", "e">>
      [] v = Bool(FALSE) -> <<"f", "a", "l", "s", "e">>
      [] v = Num(0)      -> <<"0">>
      [] v = Num(42)     -> <<"4", "2">>
      [] v = Num(-7)     -> <<"-", "7">>
      [] v = BigInt(42)  -> <<"4", "2">>
      [] v = Str(<<>>)   -> << >>
      [] v = Str(Hi)     -> <<"h", "i">>
      [] v = Sym(Hi)     -> <<"S", "y", "m", "b", "o", "l", "(", "h", "i", ")">>

\* C8: a primitive in the slot of html`a${v}b` gives exactly one chunk, its
\* canonical text, between the fragments, or no chunk when that text is
\* empty; the concatenation is the same either way.
C8_Primitive ==
    (root.k = "template" /\ root.strs = <<A, B>>
       /\ FirstSlot \in Prims \ {Undefined, Null} /\ consumer = "done") =>
        /\ recv = IF Canonical(FirstSlot) = << >> THEN <<A, B>>
                  ELSE <<A, Canonical(FirstSlot), B>>
        /\ Flat(recv) = A \o Canonical(FirstSlot) \o B

\* a drained render of a symbol, and one of the empty string
C8_Witness ==
    /\ consumer = "done"
    /\ root.k = "template"
    /\ root.strs = <<A, B>>
    /\ FirstSlot \in {Sym(Hi), Str(<<>>)}

----------------------------------------------------------------------------
(* C9 *)

\* the tree with every absent slot replaced by the empty string and every
\* absent element or settled value dropped
RECURSIVE NoAbsent(_)
RECURSIVE NoAbsentItems(_)
NoAbsentItems(s) ==
    IF s = << >> THEN << >>
    ELSE IF Fulfilment(Head(s)).k \in {"undefined", "null"}
         THEN NoAbsentItems(Tail(s))
         ELSE <<NoAbsent(Head(s))>> \o NoAbsentItems(Tail(s))

NoAbsent(v) ==
    CASE v.k = "template" ->
            [v EXCEPT !.items =
                [j \in DOMAIN v.items |->
                    IF Fulfilment(v.items[j]).k \in {"undefined", "null"}
                    THEN Str(<< >>) ELSE NoAbsent(v.items[j])]]
      [] v.k \in {"array", "generator", "asyncgenerator"} ->
            [v EXCEPT !.items = NoAbsentItems(v.items)]
      [] v.k = "promise" -> NoAbsent(v.items[1])
      [] OTHER -> v

\* C9: null and undefined contribute no chunk, in a slot, as the settled
\* value of a promise and as an element: a drained render delivers the
\* chunks of the template with those slots holding the empty string and
\* those elements left out; html`a${null}b` delivers "a", "b".
C9_AbsenceNeutral ==
    (root.k = "template" /\ Resolvable(root) /\ consumer = "done") =>
        /\ recv = Chunks(NoAbsent(root))
        /\ (root.strs = <<A, B>> /\ Fulfilment(FirstSlot) \in {Null, Undefined})
              => recv = <<A, B>>

\* a drained render with null as an element after another element, and one
\* with null as the settled value of a promise
C9_Witness ==
    /\ consumer = "done"
    /\ UnderStudy({"array", "promise", "asyncgenerator"})
    /\ \/ Len(FirstSlot.items) = 2 /\ FirstSlot.items[2] = Null
       \/ FirstSlot = PromiseOf(Null)
    /\ NoAbsent(root) # root

----------------------------------------------------------------------------
(* C10 *)

\* The text up to the first callable or rejected promise in depth-first
\* order, and that value: [text, fn], fn = Null when there is none.
RECURSIVE Scan(_)
RECURSIVE ScanAll(_)
RECURSIVE ScanAround(_, _)

Then(a, b) == IF a.fn # Null THEN a ELSE [text |-> a.text \o b.text, fn |-> b.fn]

Text(s) == [text |-> s, fn |-> Null]

ScanAll(s) ==
    IF s = << >> THEN Text(<< >>)
    ELSE LET h == Scan(Head(s))
         IN  IF h.fn # Null THEN h ELSE Then(h, ScanAll(Tail(s)))

ScanAround(f, s) ==
    IF s = << >> THEN Text(Flat(f))
    ELSE LET h == Then(Text(Head(f)), Scan(Head(s)))
         IN  IF h.fn # Null THEN h ELSE Then(h, ScanAround(Tail(f), Tail(s)))

Scan(v) ==
    CASE v.k = "function" -> [text |-> << >>, fn |-> v]
      [] v.k = "object" -> Text(<< >>)
      [] v.k = "promise" /\ v.n = 1 -> [text |-> << >>, fn |-> v]
      [] v.k = "promise" /\ v.n = 0 -> Scan(v.items[1])
      [] v.k = "template" -> ScanAround(v.strs, v.items)
      [] v.k \in {"array", "generator", "asyncgenerator"} -> ScanAll(v.items)
      [] OTHER -> Text(Resolve(v))

\* C10: with a callable in a slot at any depth, render() returns a readable
\* stream; the stream fails only by the step that reaches the callable,
\* after everything before it in depth-first order was emitted, with an
\* error whose message names that callable; and the stream is never closed.
C10_LazyInvalidSlot ==
    root.k = "template" =>
        /\ work = << >> => state = "readable"
        /\ state = "errored" =>
              /\ Scan(root).fn # Null
              /\ storedError.name = "Error"
              /\ storedError.message =
                    <<"Invalid template value: ">> \o Scan(root).fn.s
              /\ Flat(enq) = Scan(root).text
              /\ work[Len(work)].op = "throw"
              /\ ValueAt(root, work[Len(work)].path) = Scan(root).fn
        /\ HasKind(root, "function") => ~closeRequested

\* the stream failed on a callable two levels down, after two chunks or
\* more
C10_Witness ==
    /\ state = "errored"
    /\ root.k = "template"
    /\ Len(work[Len(work)].path) >= 3
    /\ Len(enq) >= 2

----------------------------------------------------------------------------
(* C11 *)

\* C11: a plain record (an object that is no template, promise, collection
\* or async sequence) in a slot makes the stream fail; the render never
\* completes as if the record were nothing.
C11_PlainRecordFails ==
    (root.k = "template" /\ HasKind(root, "object")) =>
        /\ ~closeRequested
        /\ consumer # "done"

----------------------------------------------------------------------------
(* C12 *)

RECURSIVE HasRejection(_)
HasRejection(v) ==
    (v.k = "promise" /\ v.n = 1)
    \/ \E j \in DOMAIN v.items : HasRejection(v.items[j])

\* how often the producer did op at path
Times(op, path) ==
    Cardinality({j \in DOMAIN work : work[j].op = op /\ work[j].path = path})

\* C12: with a rejected promise in a slot at any depth the stream is never
\* closed by the producer; when it fails, its error is the very reason the
\* promise was rejected with, the text emitted is exactly what precedes the
\* promise in depth-first order (no later fragment, no sibling), and no
\* promise was awaited twice.
C12_RejectionUnwrapped ==
    (root.k = "template" /\ HasRejection(root)) =>
        /\ ~closeRequested
        /\ consumer # "done"
        /\ state = "errored" =>
              /\ Scan(root).fn.k = "promise"
              /\ storedError = [name |-> "Reason", message |-> Scan(root).fn.s]
              /\ Flat(enq) = Scan(root).text
              /\ work[Len(work)].op = "throw"
        /\ \A p \in PromisePaths(root, << >>) : Times("await", p) <= 1
        /\ Times("throw", << >>) = 0

\* the consumer got the fragment before a promise resolved with a rejected
\* promise, then the rejection; the sibling slot and the later fragments
\* never came
C12_Witness ==
    /\ consumer = "rejected"
    /\ root.k = "template"
    /\ Len(root.items) = 2
    /\ root.items[1] = PromiseOf(Rejected(Boom))
    /\ recv = <<A>>
    /\ enq = <<A>>
    /\ storedError = [name |-> "Reason", message |-> Boom]

----------------------------------------------------------------------------
(* C13 *)

\* The chunks of a tree in depth-first order: every fragment of a template
\* (empty ones too), every primitive with a text.  A value that gives no
\* text (absent, callable, plain record, object with a then method,
\* rejected promise) has no chunk.
RECURSIVE Sequence(_)
RECURSIVE SequenceAll(_)
RECURSIVE SequenceAround(_, _)

SequenceAll(s) ==
    IF s = << >> THEN << >> ELSE Sequence(Head(s)) \o SequenceAll(Tail(s))

SequenceAround(f, s) ==
    IF s = << >> THEN f
    ELSE <<Head(f)>> \o Sequence(Head(s)) \o SequenceAround(Tail(f), Tail(s))

Sequence(v) ==
    CASE v.k \in {"boolean", "number", "bigint", "string", "symbol"} ->
            IF String(v) = << >> THEN << >> ELSE <<String(v)>>
      [] v.k = "promise" /\ v.n = 0 -> Sequence(v.items[1])
      [] v.k = "template" -> SequenceAround(v.strs, v.items)
      [] v.k \in {"array", "generator", "asyncgenerator"} -> SequenceAll(v.items)
      [] OTHER -> << >>

IsPrefix(s, t) == Len(s) <= Len(t) /\ s = SubSeq(t, 1, Len(s))

\* C13: the stream takes at most one terminal state and keeps it.  The
\* producer calls close() once, after the last chunk of the depth-first
\* sequence was enqueued, and nothing is enqueued afterwards; a stream that
\* failed was never closed and is never closed; a closed or failed stream
\* stays as it is.  In every state the chunks enqueued so far are a prefix
\* of the depth-first chunk sequence of the template.
C13_OneTerminalState ==
    /\ [](root.k = "template" =>
            /\ IsPrefix(enq, Sequence(root))
            /\ closeRequested => (enq = Sequence(root) /\ state # "errored")
            /\ state = "errored" => ~closeRequested)
    /\ [][/\ state \in {"closed", "errored"} =>
                (state' = state /\ storedError' = storedError /\ enq' = enq)
          /\ closeRequested =>
                (closeRequested' /\ startPc' = startPc /\ enq' = enq)]_vars

\* the producer closed the stream after five chunks or more and the
\* consumer has read them all
C13_Witness ==
    /\ consumer = "done"
    /\ state = "closed"
    /\ closeRequested
    /\ root.k = "template"
    /\ enq = Sequence(root)
    /\ recv = enq
    /\ Len(enq) >= 5

----------------------------------------------------------------------------
(* C14 *)

\* C14: a consumer that observes the failure of the stream has received
\* every chunk that was enqueued before the failure, in order, whatever its
\* pace.
C14_ChunksBeforeFailure ==
    consumer = "rejected" => recv = enq

----------------------------------------------------------------------------
(* C15 *)

\* C15: once the consumer has cancelled the stream, no chunk is enqueued
\* any more and the producer takes no further step: it awaits no promise,
\* advances no collection, resolves no slot.
C15_CancelStopsWork ==
    [][consumer = "cancelled" => (enq' = enq /\ work' = work)]_vars

----------------------------------------------------------------------------
(* C16 *)

\* C16: whatever the pace of the consumer, what it has received is a prefix
\* of the chunk sequence the generator yields when it is pulled one chunk
\* at a time (the depth-first sequence), and a drained render has delivered
\* that whole sequence, whose concatenation is the text of the template.
C16_PaceIndependent ==
    root.k = "template" =>
        /\ IsPrefix(recv, Sequence(root))
        /\ consumer = "done" =>
              /\ recv = Sequence(root)
              /\ Resolvable(root) => Flat(recv) = Resolve(root)

\* the producer has finished and closed while the consumer, one chunk read,
\* still has three chunks or more to read
C16_Witness ==
    /\ root.k = "template"
    /\ Resolvable(root)
    /\ consumer = "reading"
    /\ closeRequested
    /\ Len(recv) >= 1
    /\ Len(queue) >= 3
    /\ recv \o queue = Sequence(root)

----------------------------------------------------------------------------
(* C17 *)

----------------------------------------------------------------------------
(* C18 *)

\* C18: the chunks enqueued and not yet read never exceed the bound at
\* which the stream wants no more.
C18_BoundedBuffer ==
    Len(queue) <= HighWaterMark

\* C18 (amended): the producer never waits for the consumer and drops
\* nothing.  As long as the stream has not failed, it holds every chunk
\* enqueued and not yet read, so the unread chunks are bounded by the
\* number of chunks of the whole render only.
C18_HoldsAllUnread ==
    (root.k = "template" /\ state # "errored") =>
        /\ recv \o queue = enq
        /\ Len(queue) <= Len(Sequence(root))

\* the consumer has read nothing and the stream holds the whole render,
\* six chunks or more, closed by the producer
C18_Witness ==
    /\ root.k = "template"
    /\ recv = << >>
    /\ closeRequested
    /\ queue = Sequence(root)
    /\ Len(queue) >= 6
    /\ Len(queue) > HighWaterMark

----------------------------------------------------------------------------
(* C19 *)

Terminal == state \in {"closed", "errored"}

\* C19: if every promise the producer waits for settles and every async
\* sequence it waits for answers, the stream ends up closed or failed; and
\* as long as the producer waits for one that has not, the stream is
\* neither closed nor failed, close() was not called and no chunk is
\* enqueued.
C19_Termination ==
    /\ (Suspended ~> ~Suspended) => <>Terminal
    /\ [](Suspended => (state = "readable" /\ ~closeRequested))
    /\ [][(Suspended /\ Suspended') => enq' = enq]_vars

\* the producer waits for the promise in the first slot, which has not
\* settled, with the first fragment enqueued and a sibling slot behind
C19_Witness ==
    /\ Suspended
    /\ root.k = "template"
    /\ Len(root.items) = 2
    /\ root.items[1].k = "promise"
    /\ Top.path = <<1>>
    /\ settled = {}
    /\ enq = <<root.strs[1]>>

----------------------------------------------------------------------------
(* C20 *)

\* the tree with every object that has a then method replaced by the value
\* it resolves with
RECURSIVE Adopt(_)
Adopt(v) ==
    IF v.k = "thenable" THEN Adopt(v.items[1])
    ELSE [v EXCEPT !.items = [j \in DOMAIN v.items |-> Adopt(v.items[j])]]

\* C20: an object with a then method in a slot is waited for like a
\* promise: a drained render delivers the chunks of the value it resolves
\* with in its place.
C20_ThenableDeferred ==
    (root.k = "template" /\ HasKind(root, "thenable") /\ consumer = "done") =>
        recv = Sequence(Adopt(root))

----------------------------------------------------------------------------
(* C21 *)

\* the tree with every generator and async generator emptied
RECURSIVE Exhausted(_)
Exhausted(v) ==
    IF v.k \in {"generator", "asyncgenerator"} THEN [v EXCEPT !.items = << >>]
    ELSE [v EXCEPT !.items = [j \in DOMAIN v.items |-> Exhausted(v.items[j])]]

\* how often chunk c occurs in s
Count(c, s) == Cardinality({j \in DOMAIN s : s[j] = c})

\* C21: two renders of the same descriptor, one after the other or
\* interleaved, deliver the same chunk sequence.
C21_Deterministic ==
    (Len(site.r) = 2 /\ site.r[1].closed /\ site.r[2].closed) =>
        site.r[1].out = site.r[2].out

\* C21 (amended): two renders of the same descriptor deliver the same chunk
\* sequence, the depth-first sequence of the descriptor, when no slot holds
\* a generator or async generator at any depth.  A generator is advanced by
\* whichever render iterates it and gives each element once: the two
\* renders together deliver the chunks of the descriptor once more the
\* chunks of the descriptor with its generators emptied, and a render
\* started after the first has closed delivers the latter only.
C21_OneShotConsumed ==
    \A j \in DOMAIN site.r :
        /\ OneShotPaths(site.d, << >>) = {} =>
              /\ IsPrefix(site.r[j].out, Sequence(site.d))
              /\ site.r[j].closed => site.r[j].out = Sequence(site.d)
        /\ \A p \in DOMAIN site.taken :
              site.taken[p] <= Len(ValueAt(site.d, p).items)
        /\ (Len(site.r) = 2 /\ site.r[1].closed /\ site.r[2].closed) =>
              \A c \in {site.r[1].out[i] : i \in DOMAIN site.r[1].out}
                       \cup {site.r[2].out[i] : i \in DOMAIN site.r[2].out} :
                  Count(c, site.r[1].out) + Count(c, site.r[2].out)
                      = Count(c, Sequence(site.d))
                        + Count(c, Sequence(Exhausted(site.d)))
        /\ (Len(site.r) = 1 /\ site.r[1].closed) =>
              site.r[1].out = Sequence(site.d)
        /\ (Len(site.r) = 2 /\ site.r[1].closed
              /\ site.r[2].out = << >> /\ site.r[2].stack # << >>) =>
              \A p \in DOMAIN site.taken :
                  site.taken[p] = Len(ValueAt(site.d, p).items)

\* two interleaved renders of a descriptor whose slot holds a generator of
\* two elements have closed: the first got one element, the second the
\* other
C21_Witness ==
    /\ Len(site.r) = 2
    /\ site.r[1].closed
    /\ site.r[2].closed
    /\ site.d = html(<<A, B>>, <<Gen(<<Num(1), Num(2)>>)>>)
    /\ site.r[1].out = <<A, <<"1">>, B>>
    /\ site.r[2].out = <<A, <<"2">>, B>>

----------------------------------------------------------------------------
(* C22 *)

\* C22: no chunk handed to the stream is the empty string, whatever the
\* static fragments of the template are.
C22_NoEmptyChunk ==
    \A j \in DOMAIN enq : enq[j] # << >>

====
